---- MODULE Spec2Model ----
(* A model of buildbot's SvnSource change poller                             *)
(* (src/buildbot/changes/svnpoller.py).                                      *)
(*                                                                           *)
(* Python values are modelled as follows.  A string is the sequence of its   *)
(* characters.  A value that may be None is a tagged record: None, Num(n)    *)
(* or Str(s).  The twisted reactor runs one callback at a time, so every     *)
(* action below is one reactor callback run to completion: a timer tick      *)
(* (checksvn) or the completion of one spawned svn process together with     *)
(* the whole callback chain that the completion fires.                       *)
EXTENDS Integers, Sequences, FiniteSets, TLC

(***************************************************************************)
(* Bounds of the model.                                                    *)
(***************************************************************************)
\* number of commits the repository receives
MaxRev == 3
\* number of poll cycles that are started
MaxCycles == 3
\* number of svn info processes of skipped ticks that are outstanding at once
MaxOrphans == 1
\* largest revision number of the inputs of the filter specification
MaxFRev == 5
\* histmax, the --limit of svn log, of the modelled poller
HistMax == 2

(***************************************************************************)
(* Python values.                                                          *)
(***************************************************************************)
None == [tag |-> "None"]
Num(n) == [tag |-> "int", val |-> n]
Str(s) == [tag |-> "str", val |-> s]
\* the instance attribute does not exist: reading it raises AttributeError
NoAttr == [tag |-> "unset"]

\* s.startswith(p)
startswith(s, p) == Len(p) <= Len(s) /\ SubSeq(s, 1, Len(p)) = p

\* s[n:]
from(s, n) == SubSeq(s, n + 1, Len(s))

\* a list that is left in the order it was built
not_reversed(s) == s

\* list.reverse()
reverse(s) == [i \in 1..Len(s) |-> s[Len(s) + 1 - i]]

\* index of the first "/" of s, 0 when there is none
RECURSIVE find_slash(_, _)
find_slash(s, i) ==
    IF i > Len(s) THEN 0
    ELSE IF s[i] = "/" THEN i
    ELSE find_slash(s, i + 1)

\* s.split('/')
RECURSIVE split(_)
split(s) ==
    LET i == find_slash(s, 1)
    IN  IF i = 0 THEN <<s>>
        ELSE <<SubSeq(s, 1, i - 1)>> \o split(from(s, i))

\* '/'.join(pieces)
RECURSIVE join(_)
join(pieces) ==
    IF Len(pieces) = 0 THEN <<>>
    ELSE IF Len(pieces) = 1 THEN pieces[1]
    ELSE pieces[1] \o <<"/">> \o join(Tail(pieces))

(***************************************************************************)
(* The split_file functions.  A result is a pair [branch, file], the value *)
(* None, or an exception.                                                  *)
(***************************************************************************)
Pair(b, f) == [tag |-> "pair", branch |-> b, file |-> f]
Raise(e) == [tag |-> "raise", exc |-> e]

trunk == <<"t", "r", "u", "n", "k">>
branches == <<"b", "r", "a", "n", "c", "h", "e", "s">>

split_file_alwaystrunk(path) == Pair(None, path)

split_file_branches(path) ==
    LET pieces == split(path)
    IN  IF pieces[1] = trunk THEN Pair(None, join(from(pieces, 1)))
        ELSE IF pieces[1] = branches
             THEN IF Len(pieces) < 2 THEN Raise("IndexError")
                  ELSE Pair(Str(pieces[2]), join(from(pieces, 2)))
        ELSE None

(***************************************************************************)
(* _filter_new_logentries.  logentries is the parsed log, newest first;    *)
(* an entry is a record with a revision field.  The result is the pair     *)
(* (new_last_change, new_logentries) and, in assign, the value the         *)
(* function itself stores in self.last_change (line 324), or NoAttr when   *)
(* it stores nothing.                                                      *)
(***************************************************************************)
\* the loop without its break: every entry is taken
collect_all(logentries, last_change) == logentries

\* a loop that takes nothing for new when no entry is at last_change
collect_if_found(logentries, last_change) ==
    IF \E i \in DOMAIN logentries : last_change = Num(logentries[i].revision)
    THEN SubSeq(logentries, 1,
                (CHOOSE i \in DOMAIN logentries :
                     last_change = Num(logentries[i].revision)) - 1)
    ELSE <<>>

\* the loop of lines 334-337: the entries before the one at last_change
RECURSIVE collect(_, _)
collect(logentries, last_change) ==
    IF Len(logentries) = 0 THEN <<>>
    ELSE IF last_change = Num(logentries[1].revision) THEN <<>>
    ELSE <<logentries[1]>> \o collect(Tail(logentries), last_change)

\* a filter whose first run takes the whole log for new
filter_first_run_flood(logentries, last_change) ==
    IF Len(logentries) = 0
    THEN [last |-> None, new |-> <<>>, assign |-> NoAttr]
    ELSE LET mostRecent == Num(logentries[1].revision)
         IN  IF last_change = mostRecent
             THEN [last |-> mostRecent, new |-> <<>>, assign |-> NoAttr]
             ELSE [last |-> mostRecent,
                   new |-> reverse(collect(logentries, last_change)),
                   assign |-> NoAttr]

\* a filter that, after the first run, never compares with last_change
filter_ignore_last_change(logentries, last_change) ==
    IF Len(logentries) = 0
    THEN [last |-> None, new |-> <<>>, assign |-> NoAttr]
    ELSE LET mostRecent == Num(logentries[1].revision)
         IN  IF last_change = None
             THEN [last |-> mostRecent, new |-> <<>>, assign |-> mostRecent]
             ELSE [last |-> mostRecent, new |-> reverse(logentries),
                   assign |-> NoAttr]

filter_new_logentries(logentries, last_change) ==
    IF Len(logentries) = 0
    THEN [last |-> None, new |-> <<>>, assign |-> NoAttr]
    ELSE LET mostRecent == Num(logentries[1].revision)
         IN  IF last_change = None
             THEN [last |-> mostRecent, new |-> <<>>, assign |-> mostRecent]
             ELSE IF last_change = mostRecent
             THEN [last |-> mostRecent, new |-> <<>>, assign |-> NoAttr]
             ELSE [last |-> mostRecent,
                   new |-> reverse(collect(logentries, last_change)),
                   assign |-> NoAttr]

(***************************************************************************)
(* _determine_prefix_2 on well-formed svn info output.  info_root is the   *)
(* text of the first <root> element, or None when there is none.  The      *)
(* result is the new value of self._prefix or an exception.                *)
(***************************************************************************)
determine_prefix_2(url, rootnode) ==
    IF rootnode = None THEN Str(<<>>)
    ELSE LET root == rootnode.val
         IN  IF ~startswith(url, root) THEN Raise("AssertionError")
             ELSE LET p == from(url, Len(root))
                  IN  IF startswith(p, <<"/">>) THEN Str(from(p, 1))
                      ELSE Str(p)

(***************************************************************************)
(* split_file: the function given to the constructor.                      *)
(***************************************************************************)
split_file(f, path) ==
    IF f = "split_file_branches" THEN split_file_branches(path)
    ELSE split_file_alwaystrunk(path)

(***************************************************************************)
(* _transform_path.  Unpacking the result of split_file into (branch,      *)
(* final_path) raises TypeError when the result is None.                   *)
(***************************************************************************)
\* lines 350-352: the path without the prefix and without one leading "/"
relative_path(path, prefix) ==
    LET rest == from(path, Len(prefix))
    IN  IF startswith(rest, <<"/">>) THEN from(rest, 1) ELSE rest

transform_path(path, prefix, f) ==
    IF ~startswith(path, prefix) THEN Raise("AssertionError")
    ELSE LET r == split_file(f, relative_path(path, prefix))
         IN  IF r = None THEN Raise("TypeError") ELSE r

(***************************************************************************)
(* _create_changes.  A log entry is [revision, paths]; its author, msg and  *)
(* date elements are present and well-formed.  order lists the branch      *)
(* values in the order in which a dictionary with these keys is iterated.  *)
(* The result is the list of Change records or an exception.               *)
(***************************************************************************)
Change(revision, branch, files) ==
    [revision |-> revision, branch |-> branch, files |-> files]

\* lines 382-383: a path loses one leading "/"
strip_slash(path) == IF startswith(path, <<"/">>) THEN from(path, 1) ELSE path

\* the results of _transform_path for the paths of one entry, in path order
transformed(el, prefix, f) ==
    [i \in 1..Len(el.paths) |-> transform_path(strip_slash(el.paths[i]), prefix, f)]

\* every file name of the entry, whatever its branch
files_of_any(results, branch) == [i \in 1..Len(results) |-> results[i].file]

\* branches[branch]: the file names of one branch, in path order
RECURSIVE files_of(_, _)
files_of(results, branch) ==
    IF Len(results) = 0 THEN <<>>
    ELSE (IF results[1].branch = branch THEN <<results[1].file>> ELSE <<>>)
         \o files_of(Tail(results), branch)

\* lines 389-396: one Change for every key of the dictionary
RECURSIVE changes_of(_, _, _)
changes_of(revision, results, order) ==
    IF Len(order) = 0 THEN <<>>
    ELSE (IF \E i \in 1..Len(results) : results[i].branch = order[1]
          THEN <<Change(revision, order[1], files_of(results, order[1]))>>
          ELSE <<>>)
         \o changes_of(revision, results, Tail(order))

\* the body of the loop of line 369 for one entry
entry_changes(el, prefix, f, order) ==
    LET results == transformed(el, prefix, f)
        bad == {i \in 1..Len(results) : results[i].tag # "pair"}
    IN  IF bad # {}
        THEN results[CHOOSE i \in bad : \A j \in bad : i <= j]
        ELSE [tag |-> "ok", changes |-> changes_of(el.revision, results, order)]

RECURSIVE create_changes(_, _, _, _)
create_changes(new_logentries, prefix, f, order) ==
    IF Len(new_logentries) = 0 THEN [tag |-> "ok", changes |-> <<>>]
    ELSE LET first == entry_changes(new_logentries[1], prefix, f, order)
             rest == create_changes(Tail(new_logentries), prefix, f, order)
         IN  IF first.tag # "ok" THEN first
             ELSE IF rest.tag # "ok" THEN rest
             ELSE [tag |-> "ok", changes |-> first.changes \o rest.changes]

(***************************************************************************)
(* The state.                                                              *)
(***************************************************************************)
VARIABLES
    \* constructor arguments of the SvnSource
    svnurl, split_file_function, histmax,
    \* attributes of the SvnSource
    _prefix, last_change, working,
    \* the LoopingCall that calls checksvn: "running" or "stopped"
    loop,
    \* the Deferred chains built by checksvn that have not reached _finished:
    \* records [id, at, prefix0], at naming the svn process the chain waits
    \* for and prefix0 the value of _prefix when the cycle started
    cycles,
    \* the svn info processes started by ticks that were skipped; their
    \* Deferred has the callback _determine_prefix_2 only
    orphans,
    \* the repository: repo[r] is the commit of revision r
    repo,
    \* the <root> element svn info reports for svnurl, None when it has none
    info_root,
    \* parent: the calls of addChange so far, records [cycle, change]
    sink,
    \* the number of cycles started so far
    ncycles,
    \* what the most recent run of _finished concluded, for the properties
    hist,
    \* last_change before the present run of failed cycles, for the properties
    run_wm,
    \* whether the assertion of _finished has failed
    assert_failed,
    \* one call of _filter_new_logentries on its own: the arguments and the
    \* result, NoAttr before the call
    f_logentries, f_last_change, f_result

vars == <<svnurl, split_file_function, histmax, _prefix, last_change, working,
          loop, cycles, orphans, repo, info_root, sink, ncycles, hist, run_wm,
          assert_failed, f_logentries, f_last_change, f_result>>

\* the constructor arguments and the environment's constant part
config == <<svnurl, split_file_function, histmax, info_root>>

\* the call of _filter_new_logentries on its own
filter_call == <<f_logentries, f_last_change, f_result>>

poller == <<_prefix, last_change, working, loop, cycles, orphans, repo, sink,
            ncycles, hist, run_wm, assert_failed>>

(***************************************************************************)
(* The environment: watched URLs, repository roots and commits.            *)
(***************************************************************************)
RootURL == <<"r">>
ProjectURL == <<"r", "/", "p">>
OtherRootURL == <<"q">>

\* the configurations: a project below the root watched with branches, the
\* repository root itself (svn info then reports no <root> element, lines
\* 267-271), a root that is not a prefix of the URL, and a project watched
\* without branches
Configs ==
    { [url |-> ProjectURL, root |-> Str(RootURL), f |-> "split_file_branches"],
      [url |-> RootURL, root |-> None, f |-> "split_file_alwaystrunk"],
      [url |-> ProjectURL, root |-> Str(OtherRootURL), f |-> "split_file_branches"],
      [url |-> ProjectURL, root |-> Str(RootURL), f |-> "split_file_alwaystrunk"] }

\* the commits: the paths svn log reports of one revision.  In a repository
\* that is watched with split_file_branches a commit touches a branch and
\* the trunk, or the trunk and a tag; in one watched with
\* split_file_alwaystrunk it touches the trunk of the project or a file
\* outside the project.
TrunkCommit == [paths |-> << <<"/", "p", "/">> \o trunk \o <<"/", "a">> >>]
BranchCommit ==
    [paths |-> << <<"/", "p", "/">> \o branches \o <<"/", "b", "/", "x">>,
                  <<"/", "p", "/">> \o trunk \o <<"/", "a">> >>]
TagCommit ==
    [paths |-> << <<"/", "p", "/">> \o trunk \o <<"/", "a">>,
                  <<"/", "p", "/", "t", "a", "g", "s", "/", "c">> >>]
OutsideCommit == [paths |-> << <<"/", "z">> >>]

Commits(f) ==
    IF f = "split_file_branches"
    THEN {BranchCommit, TagCommit}
    ELSE {TrunkCommit, OutsideCommit}

\* the values a branch can take in this environment
Branches == {None, Str(<<"b">>)}

\* the orders in which a dictionary keyed by branches can be iterated
DictOrders ==
    {o \in [1..Cardinality(Branches) -> Branches] :
        \A i, j \in DOMAIN o : i # j => o[i] # o[j]}

\* the <logentry> element of revision r
logentry(r) == [revision |-> r, paths |-> repo[r].paths]

\* what svn log --limit=histmax reports: the newest entries, newest first
svn_log ==
    LET n == IF Len(repo) < histmax THEN Len(repo) ELSE histmax
    IN  [i \in 1..n |-> logentry(Len(repo) + 1 - i)]

\* the outcomes of an svn process: it fails, its output is not well-formed
\* XML, its output has no element of interest, or it reports the repository
InfoOutputs == {"fail", "malformed", "doc"}
LogOutputs == {"fail", "malformed", "empty", "doc"}

NoCycle == [id |-> 0, outcome |-> "none", before |-> None, after |-> None,
            log |-> <<>>, new |-> <<>>, built |-> <<>>, sent |-> <<>>,
            since |-> NoAttr, prefix0 |-> None, output |-> "none"]

\* __init__ sets svnurl, split_file_function and histmax; last_change and
\* working are class attributes.  It does not create _prefix (line 174 sets
\* _root): the attribute is missing, or it is None when a subclass or the
\* caller has provided it.
Init ==
    /\ \E c \in Configs :
        /\ svnurl = c.url
        /\ split_file_function = c.f
        /\ info_root = c.root
    /\ histmax = HistMax
    /\ _prefix \in {NoAttr, None}
    /\ last_change = None
    /\ working = FALSE
    /\ loop = "running"
    /\ cycles = {}
    /\ orphans = 0
    /\ repo = <<>>
    /\ sink = <<>>
    /\ ncycles = 0
    /\ hist = NoCycle
    /\ run_wm = NoAttr
    /\ assert_failed = FALSE
    /\ f_logentries = <<>>
    /\ f_last_change = None
    /\ f_result = NoAttr

(***************************************************************************)
(* _finished, at the end of the chain of cycle c.                          *)
(***************************************************************************)
Failed(outcome) == outcome # "ok"

\* a chain that ends with addCallback(self._finished): a failure passes
\* _finished by and working stays set
finished_on_success(c, output, outcome, after, log, new, built, sent) ==
    /\ assert_failed' = (assert_failed \/ ~working)
    /\ working' = (working /\ Failed(outcome))
    /\ cycles' = cycles \ {c}
    /\ last_change' = after
    /\ sink' = sink \o [i \in 1..Len(sent) |-> [cycle |-> c.id, change |-> sent[i]]]
    /\ hist' = [id |-> c.id, outcome |-> outcome, before |-> last_change,
                after |-> after, log |-> log, new |-> new, built |-> built,
                sent |-> sent, since |-> run_wm, prefix0 |-> c.prefix0,
                output |-> output]
    /\ run_wm' = IF ~Failed(outcome) THEN NoAttr
                 ELSE IF run_wm = NoAttr THEN last_change
                 ELSE run_wm

finished(c, output, outcome, after, log, new, built, sent) ==
    /\ assert_failed' = (assert_failed \/ ~working)
    /\ working' = FALSE
    /\ cycles' = cycles \ {c}
    /\ last_change' = after
    /\ sink' = sink \o [i \in 1..Len(sent) |-> [cycle |-> c.id, change |-> sent[i]]]
    /\ hist' = [id |-> c.id, outcome |-> outcome, before |-> last_change,
                after |-> after, log |-> log, new |-> new, built |-> built,
                sent |-> sent, since |-> run_wm, prefix0 |-> c.prefix0,
                output |-> output]
    /\ run_wm' = IF ~Failed(outcome) THEN NoAttr
                 ELSE IF run_wm = NoAttr THEN last_change
                 ELSE run_wm

(***************************************************************************)
(* checksvn: one tick of the LoopingCall.                                  *)
(***************************************************************************)
\* "not self._prefix"
not_prefix == _prefix = None \/ _prefix = Str(<<>>)

\* line 229 raises AttributeError: the LoopingCall stops
checksvn_raise ==
    /\ loop = "running"
    /\ _prefix = NoAttr
    /\ loop' = "stopped"
    /\ UNCHANGED <<config, filter_call, _prefix, last_change, working, cycles, orphans, repo,
                   sink, ncycles, hist, run_wm, assert_failed>>

\* lines 235-237: the tick is skipped, after line 231 has started svn info
checksvn_skip ==
    /\ loop = "running"
    /\ _prefix # NoAttr
    /\ working
    /\ IF not_prefix
       THEN orphans < MaxOrphans /\ orphans' = orphans + 1
       ELSE orphans' = orphans
    /\ UNCHANGED <<config, filter_call, _prefix, last_change, working, loop, cycles, repo,
                   sink, ncycles, hist, run_wm, assert_failed>>

\* a cycle that starts without looking at self.working
checksvn_start_unguarded ==
    /\ loop = "running"
    /\ _prefix # NoAttr
    /\ ncycles < MaxCycles
    /\ working' = TRUE
    /\ ncycles' = ncycles + 1
    /\ cycles' = cycles \cup
           {[id |-> ncycles + 1, at |-> IF not_prefix THEN "info" ELSE "log",
             prefix0 |-> _prefix]}
    /\ UNCHANGED <<config, filter_call, _prefix, last_change, loop, orphans,
                   repo, sink, hist, run_wm, assert_failed>>

\* lines 239-246: a cycle starts; it waits for svn info or, the prefix being
\* known, calls _get_logs at once and waits for svn log
checksvn_start ==
    /\ loop = "running"
    /\ _prefix # NoAttr
    /\ ~working
    /\ ncycles < MaxCycles
    /\ working' = TRUE
    /\ ncycles' = ncycles + 1
    /\ cycles' = cycles \cup
           {[id |-> ncycles + 1, at |-> IF not_prefix THEN "info" ELSE "log",
             prefix0 |-> _prefix]}
    /\ UNCHANGED <<config, filter_call, _prefix, last_change, loop, orphans, repo, sink,
                   hist, run_wm, assert_failed>>

checksvn == checksvn_raise \/ checksvn_skip \/ checksvn_start

(***************************************************************************)
(* svn info finishes.                                                      *)
(***************************************************************************)
\* for the chain of a cycle: _determine_prefix_2, then _get_logs or, after
\* a failure, _finished
info_done(c, out) ==
    /\ c \in cycles
    /\ c.at = "info"
    /\ LET r == determine_prefix_2(svnurl, info_root)
       IN  IF out = "doc" /\ r.tag = "str"
           THEN /\ _prefix' = r
                /\ cycles' = (cycles \ {c}) \cup {[c EXCEPT !.at = "log"]}
                /\ UNCHANGED <<last_change, working, sink, hist, run_wm,
                               assert_failed>>
           ELSE /\ finished(c, "none", "info_failed", last_change,
                           <<>>, <<>>, <<>>, <<>>)
                /\ UNCHANGED _prefix
    /\ UNCHANGED <<config, filter_call, loop, orphans, repo, ncycles>>

\* for a skipped tick: _determine_prefix_2 only
orphan_info_done(out) ==
    /\ orphans > 0
    /\ orphans' = orphans - 1
    /\ LET r == determine_prefix_2(svnurl, info_root)
       IN  _prefix' = IF out = "doc" /\ r.tag = "str" THEN r ELSE _prefix
    /\ UNCHANGED <<config, filter_call, last_change, working, loop, cycles, repo, sink,
                   ncycles, hist, run_wm, assert_failed>>

(***************************************************************************)
(* _get_new_logentries: the value of self.last_change afterwards.          *)
(***************************************************************************)
\* a cycle that stores the revision of the oldest new entry
get_new_logentries_oldest(logentries) ==
    LET f == filter_new_logentries(logentries, last_change)
    IN  IF f.new = <<>> THEN f
        ELSE [f EXCEPT !.last = Num(f.new[1].revision)]

get_new_logentries(logentries) ==
    filter_new_logentries(logentries, last_change)

(***************************************************************************)
(* _submit_changes.  fail_at is the index of the change whose addChange    *)
(* raises, 0 when none does.  The result is the list of the changes that   *)
(* are passed to addChange.                                                *)
(***************************************************************************)
submit_changes(changes, fail_at) ==
    IF fail_at = 0 THEN changes ELSE SubSeq(changes, 1, fail_at)

revisions(entries) == [i \in 1..Len(entries) |-> entries[i].revision]

(***************************************************************************)
(* _parse_logs on the output of svn log: the list of <logentry> elements,  *)
(* or ExpatError for output that is not well-formed.                       *)
(***************************************************************************)
\* a parser that takes output it cannot read for a log without entries
parse_logs_lenient(out) ==
    [tag |-> "ok", logentries |-> IF out = "doc" THEN svn_log ELSE <<>>]

parse_logs(out) ==
    IF out = "malformed" THEN Raise("ExpatError")
    ELSE [tag |-> "ok", logentries |-> IF out = "empty" THEN <<>> ELSE svn_log]

(***************************************************************************)
(* svn log finishes: _parse_logs, _get_new_logentries, _create_changes,    *)
(* _submit_changes and _finished run in one go.                            *)
(***************************************************************************)
log_done(c, out, order, fail_at) ==
    /\ c \in cycles
    /\ c.at = "log"
    /\ LET parsed == parse_logs(out)
       IN  IF out = "fail"
           THEN /\ fail_at = 0
                /\ finished(c, out, "log_failed", last_change,
                            <<>>, <<>>, <<>>, <<>>)
           ELSE IF parsed.tag # "ok"
           THEN /\ fail_at = 0
                /\ finished(c, out, "parse_failed", last_change,
                            <<>>, <<>>, <<>>, <<>>)
           ELSE LET logentries == parsed.logentries
                    f == get_new_logentries(logentries)
                    made == create_changes(f.new, _prefix.val,
                                           split_file_function, order)
                IN  IF made.tag # "ok"
                    THEN /\ fail_at = 0
                         /\ finished(c, out, "build_failed", f.last,
                                     revisions(logentries), revisions(f.new),
                                     <<>>, <<>>)
                    ELSE /\ fail_at \in 0..Len(made.changes)
                         /\ finished(c, out,
                                     IF fail_at = 0 THEN "ok" ELSE "submit_failed",
                                     f.last, revisions(logentries),
                                     revisions(f.new), made.changes,
                                     submit_changes(made.changes, fail_at))
    /\ UNCHANGED <<config, filter_call, _prefix, loop, orphans, repo, ncycles>>

(***************************************************************************)
(* The repository receives a commit.                                       *)
(***************************************************************************)
commit(k) ==
    /\ Len(repo) < MaxRev
    /\ repo' = Append(repo, k)
    /\ UNCHANGED <<config, filter_call, _prefix, last_change, working, loop, cycles, orphans,
                   sink, ncycles, hist, run_wm, assert_failed>>

Next ==
    \/ checksvn
    \/ \E c \in cycles, out \in InfoOutputs : info_done(c, out)
    \/ \E out \in InfoOutputs : orphan_info_done(out)
    \/ \E c \in cycles, out \in LogOutputs, order \in DictOrders,
          fail_at \in 0..(2 * HistMax) :
            log_done(c, out, order, fail_at)
    \/ \E k \in Commits(split_file_function) : commit(k)

Spec == Init /\ [][Next]_vars

(***************************************************************************)
(* Every svn process that was started ends: the deferred of getProcessOutput *)
(* fires, with the output or with a failure.                               *)
(***************************************************************************)
\* the configuration in which a cycle can fail at every stage
FairInit ==
    /\ Init
    /\ svnurl = ProjectURL
    /\ info_root = Str(RootURL)
    /\ split_file_function = "split_file_branches"

FairSpec ==
    /\ FairInit
    /\ [][Next]_vars
    /\ WF_vars(\E c \in cycles, out \in InfoOutputs : info_done(c, out))
    /\ WF_vars(\E c \in cycles, out \in LogOutputs, order \in DictOrders,
                  fail_at \in 0..(2 * HistMax) :
                    log_done(c, out, order, fail_at))

(***************************************************************************)
(* _filter_new_logentries on its own: the arguments are any log with       *)
(* strictly decreasing revisions up to MaxFRev and any value of            *)
(* last_change, and the one step is the call.                              *)
(***************************************************************************)
\* the entries with the revisions of S, newest first
RECURSIVE newest_first(_)
newest_first(S) ==
    IF S = {} THEN <<>>
    ELSE LET m == CHOOSE r \in S : \A q \in S : q <= r
         IN  <<[revision |-> m]>> \o newest_first(S \ {m})

FilterInit ==
    /\ svnurl = ProjectURL
    /\ split_file_function = "split_file_branches"
    /\ info_root = Str(RootURL)
    /\ histmax = HistMax
    /\ _prefix = None
    /\ last_change = None
    /\ working = FALSE
    /\ loop = "running"
    /\ cycles = {}
    /\ orphans = 0
    /\ repo = <<>>
    /\ sink = <<>>
    /\ ncycles = 0
    /\ hist = NoCycle
    /\ run_wm = NoAttr
    /\ assert_failed = FALSE
    /\ \E S \in SUBSET (1..MaxFRev) : f_logentries = newest_first(S)
    /\ f_last_change \in {None} \cup {Num(r) : r \in 1..MaxFRev}
    /\ f_result = NoAttr

filter_apply ==
    /\ f_result = NoAttr
    /\ f_result' = filter_new_logentries(f_logentries, f_last_change)
    /\ UNCHANGED <<config, poller, f_logentries, f_last_change>>

FilterNext == filter_apply

FilterSpec == FilterInit /\ [][FilterNext]_vars

(***************************************************************************)
(* Properties.                                                             *)
(***************************************************************************)
\* the revisions of the changes of a list of sink calls or of changes
sink_revisions == {sink[i].change.revision : i \in DOMAIN sink}
sent_revisions == {hist.sent[i].revision : i \in DOMAIN hist.sent}

\* a step that starts an svn info process
starts_info ==
    \/ orphans' > orphans
    \/ \E c \in cycles' \ cycles : c.at = "info"

\* a step that starts an svn log process
starts_log ==
    \/ \E c \in cycles' \ cycles : c.at = "log"
    \/ \E c \in cycles : c.at = "info" /\ [c EXCEPT !.at = "log"] \in cycles'

\* C1: a tick of checksvn that arrives while a cycle is in flight (working
\* is True) starts no svn process, neither svn info nor svn log.
C1_OverlapGuard ==
    [][(working /\ checksvn) => (~starts_info /\ ~starts_log)]_vars

\* C2: once last_change is a revision it never becomes None again and never
\* takes a smaller value.
C2_WatermarkMonotone ==
    [][last_change # None =>
         (last_change' # None /\ last_change'.val >= last_change.val)]_vars

\* C3: a cycle whose log has no entries leaves last_change as it was at the
\* start of the cycle and submits no Change.
C3_EmptyLogNoop ==
    (hist.outcome = "ok" /\ hist.log = <<>>) =>
        (hist.after = hist.before /\ hist.sent = <<>>)

\* C4: no revision is passed to addChange in more than one cycle, and every
\* Change of a cycle has a revision greater than last_change was when the
\* cycle started.
C4_ExactlyOnce ==
    /\ \A i, j \in DOMAIN sink :
         sink[i].change.revision = sink[j].change.revision =>
             sink[i].cycle = sink[j].cycle
    /\ \A i \in DOMAIN hist.sent :
         hist.before # None /\ hist.sent[i].revision > hist.before.val

\* C4 witness: two cycles have each delivered changes.
C4_Witness ==
    \E i, j \in DOMAIN sink : sink[i].cycle # sink[j].cycle

\* C5: a cycle that completes after a run of failed cycles submits every
\* revision of its log that is newer than the watermark held before the run.
C5_CatchUp ==
    (hist.outcome = "ok" /\ hist.since # NoAttr /\ hist.since # None) =>
        \A i \in DOMAIN hist.log :
            hist.log[i] > hist.since.val => hist.log[i] \in sent_revisions

\* C6: when addChange fails for one Change of a batch, every Change of the
\* batch is still passed to addChange, in order, and the cycle ends idle.
C6_SinkFailureContinues ==
    hist.outcome = "submit_failed" => (hist.sent = hist.built /\ ~working)

\* the most recent cycle to finish came past prefix resolution
resolved_in_cycle ==
    /\ _prefix.tag = "str"
    /\ hist.outcome \notin {"none", "info_failed"}

\* C7: after a cycle in which prefix resolution succeeded, the empty prefix
\* included, no svn info process is started again.
C7_PrefixCached ==
    [][resolved_in_cycle => ~starts_info]_vars

\* the paths of revision r as _transform_path receives them
stripped_paths(r) == [i \in DOMAIN repo[r].paths |-> strip_slash(repo[r].paths[i])]

\* split_file excludes the path
excluded(path) ==
    /\ startswith(path, _prefix.val)
    /\ split_file(split_file_function, relative_path(path, _prefix.val)) = None

\* the path is under the prefix and split_file gives it a branch and a file
kept(path) ==
    /\ startswith(path, _prefix.val)
    /\ split_file(split_file_function, relative_path(path, _prefix.val)).tag = "pair"

\* C8: when split_file excludes a path of a new entry (and every other path
\* is under the prefix), the cycle does not abort in _create_changes and
\* every other path of every new entry is a file of a Change of its entry
\* and branch.
C8_ExcludedDiscarded ==
    (/\ hist.new # <<>>
     /\ \E i \in DOMAIN hist.new :
          \E k \in DOMAIN stripped_paths(hist.new[i]) :
              excluded(stripped_paths(hist.new[i])[k])
     /\ \A i \in DOMAIN hist.new :
          \A k \in DOMAIN stripped_paths(hist.new[i]) :
              \/ excluded(stripped_paths(hist.new[i])[k])
              \/ kept(stripped_paths(hist.new[i])[k]))
    => /\ hist.outcome # "build_failed"
       /\ \A i \in DOMAIN hist.new :
            \A k \in DOMAIN stripped_paths(hist.new[i]) :
                LET path == stripped_paths(hist.new[i])[k]
                    r == split_file(split_file_function,
                                    relative_path(path, _prefix.val))
                IN  kept(path) =>
                      \E n \in DOMAIN hist.built :
                          /\ hist.built[n].revision = hist.new[i]
                          /\ hist.built[n].branch = r.branch
                          /\ \E m \in DOMAIN hist.built[n].files :
                                hist.built[n].files[m] = r.file

\* C9: at most one cycle is active, and last_change is written only by the
\* one active cycle, in the step that ends it.
C9_MutualExclusion ==
    /\ [](Cardinality(cycles) <= 1)
    /\ [][last_change' # last_change =>
            (Cardinality(cycles) = 1 /\ cycles' = {})]_vars

\* C9 witness: a tick was skipped while a cycle was active (its svn info
\* process is still running), and the cycle is still the only one.
C9_Witness ==
    orphans > 0 /\ Cardinality(cycles) = 1 /\ working

\* C10: for a non-empty log and last_change equal to one of its revisions,
\* the new entries are exactly the entries with a greater revision, oldest
\* first, and the new watermark is the revision of the newest entry.
C10_FilterInWindow ==
    (/\ f_result # NoAttr
     /\ f_logentries # <<>>
     /\ f_last_change # None
     /\ \E i \in DOMAIN f_logentries :
          f_logentries[i].revision = f_last_change.val)
    => LET newer == {r \in 1..MaxFRev :
                        /\ r > f_last_change.val
                        /\ \E i \in DOMAIN f_logentries :
                             f_logentries[i].revision = r}
       IN  /\ Len(f_result.new) = Cardinality(newer)
           /\ {f_result.new[i].revision : i \in DOMAIN f_result.new} = newer
           /\ \A i, j \in DOMAIN f_result.new :
                i < j => f_result.new[i].revision < f_result.new[j].revision
           /\ f_result.last = Num(f_logentries[1].revision)

\* C10 witness: the call returned two or more new entries for a watermark
\* that is in the log.
C10_Witness ==
    /\ f_result # NoAttr
    /\ f_last_change # None
    /\ \E i \in DOMAIN f_logentries :
         f_logentries[i].revision = f_last_change.val
    /\ Len(f_result.new) >= 2

\* C11: a cycle that filters a non-empty log with last_change None submits
\* no Change and sets last_change to the revision of the newest entry.
C11_NoFloodOnFirstRun ==
    (hist.log # <<>> /\ hist.before = None) =>
        /\ hist.new = <<>>
        /\ hist.sent = <<>>
        /\ hist.after = Num(hist.log[1])
        /\ last_change = Num(hist.log[1])

\* C11 witness: a first run has filtered a log of two entries.
C11_Witness ==
    hist.before = None /\ Len(hist.log) >= 2 /\ hist.outcome = "ok"

\* the step ends a cycle that completes directly after a completed cycle
\* whose log had the same newest revision
same_newest_again ==
    /\ hist'.id = hist.id + 1
    /\ hist.outcome = "ok" /\ hist'.outcome = "ok"
    /\ hist.log # <<>> /\ hist'.log # <<>>
    /\ hist'.log[1] = hist.log[1]

\* C12: of two consecutive successful cycles whose logs have the same newest
\* revision, the second submits no Change and leaves last_change as it was
\* after the first.
C12_UnchangedRepository ==
    [][same_newest_again =>
         (hist'.sent = <<>> /\ sink' = sink /\ last_change' = last_change)]_vars

\* C12 witness: a second successful cycle in a row has filtered a log whose
\* newest revision is the watermark the first one left.
C12_Witness ==
    /\ hist.id >= 2
    /\ hist.outcome = "ok"
    /\ hist.since = NoAttr
    /\ hist.log # <<>>
    /\ hist.before = Num(hist.log[1])

\* the cycle that finished last came past _create_changes
was_built == hist.outcome \in {"ok", "submit_failed"}

\* what _transform_path gives for the paths of revision r, in path order
path_results(r) == transformed(logentry(r), _prefix.val, split_file_function)

\* the branches of the paths of revision r
branches_of(r) == {path_results(r)[i].branch : i \in DOMAIN path_results(r)}

\* the index of the first path of revision r that is of branch b
first_seen(r, b) ==
    CHOOSE i \in DOMAIN path_results(r) :
        /\ path_results(r)[i].branch = b
        /\ \A j \in DOMAIN path_results(r) :
             path_results(r)[j].branch = b => i <= j

\* the files of the paths of revision r that are of branch b, in path order
branch_files(r, b) ==
    LET of_b(x) == x.branch = b
        sel == SelectSeq(path_results(r), of_b)
    IN  [i \in DOMAIN sel |-> sel[i].file]

\* the Changes that were built for revision r, in the order built
built_for(r) ==
    LET of_r(ch) == ch.revision = r
    IN  SelectSeq(hist.built, of_r)

\* one Change for every branch of the entry, each with the files of its branch
one_change_per_branch(r) ==
    LET cs == built_for(r)
    IN  /\ Len(cs) = Cardinality(branches_of(r))
        /\ \A n, m \in DOMAIN cs : n # m => cs[n].branch # cs[m].branch
        /\ \A n \in DOMAIN cs :
             /\ cs[n].branch \in branches_of(r)
             /\ cs[n].files = branch_files(r, cs[n].branch)

log_or_parse_failure == hist.output \in {"fail", "malformed"}

\* last_change is as at the start of the cycle and nothing was submitted
watermark_kept ==
    /\ hist.after = hist.before
    /\ last_change = hist.before
    /\ hist.built = <<>>
    /\ hist.sent = <<>>

\* C14 as stated: a cycle that fails because svn log fails or its output
\* cannot be parsed leaves last_change and the cached prefix as they were at
\* the start of the cycle and submits nothing.
C14_StateAsAtStart ==
    log_or_parse_failure => (watermark_kept /\ _prefix = hist.prefix0)

\* C14 as amended: such a cycle leaves last_change as it was at the start of
\* the cycle and submits nothing; a prefix that was cached at the start of
\* the cycle is unchanged, and a prefix the cycle resolved before it asked
\* for the log stays cached.
C14_FailureKeepsWatermark ==
    log_or_parse_failure =>
        /\ watermark_kept
        /\ _prefix.tag = "str"
        /\ (hist.prefix0.tag = "str" => _prefix = hist.prefix0)

\* C14 witness: a cycle failed on output that is not well-formed while a
\* revision newer than its watermark was waiting.
C14_Witness ==
    /\ hist.output = "malformed"
    /\ hist.outcome = "parse_failed"
    /\ hist.before # None
    /\ Len(repo) > hist.before.val

\* C15: a cycle whose prefix resolution fails caches no prefix, asks for no
\* log, leaves last_change unchanged and submits nothing, and the next cycle
\* starts with prefix resolution again.
C15_ResolutionFailure ==
    hist.outcome = "info_failed" =>
        /\ hist.output = "none"
        /\ watermark_kept
        /\ (cycles = {} => not_prefix)
        /\ (\A c \in cycles : c.id = hist.id + 1 => c.prefix0 \in {None, Str(<<>>)})

\* C16: every started cycle sets working back to False, whatever the stage
\* it fails at, provided its svn process ends; and once a cycle has ended,
\* a tick that finds working False starts a cycle and is not skipped.
C16_ReturnsToIdle ==
    /\ working ~> ~working
    /\ [][(checksvn /\ hist.id >= 1 /\ ~working) =>
            (working' /\ \E c \in cycles' : c.id = hist.id + 1)]_vars

\* C16 witness: a cycle failed and the next tick started another cycle.
C16_Witness ==
    /\ hist.id >= 1
    /\ Failed(hist.outcome)
    /\ working
    /\ \E c \in cycles : c.id = hist.id + 1

\* s is the beginning of t
is_prefix(s, t) == Len(s) <= Len(t) /\ s = SubSeq(t, 1, Len(s))

\* the revisions of a list of Changes are in non-decreasing order
oldest_first(changes) ==
    \A i, j \in DOMAIN changes :
        i <= j => changes[i].revision <= changes[j].revision

\* C17: the Changes of a cycle are submitted in the order they were built,
\* oldest revision first, and over the cycles of a poller the revisions
\* passed to addChange never decrease.
C17_ChronologicalDelivery ==
    /\ is_prefix(hist.sent, hist.built)
    /\ oldest_first(hist.built)
    /\ \A i, j \in DOMAIN sink :
         i <= j => /\ sink[i].cycle <= sink[j].cycle
                   /\ sink[i].change.revision <= sink[j].change.revision

\* C17 witness: a cycle after the first has built and delivered the Changes
\* of two revisions.
C17_Witness ==
    /\ hist.id >= 2
    /\ hist.sent = hist.built
    /\ \E i, j \in DOMAIN sink :
         /\ i < j
         /\ sink[i].cycle = hist.id
         /\ sink[j].cycle = hist.id
         /\ sink[i].change.revision < sink[j].change.revision

\* the cycle that finished last began with a revision in last_change and
\* fetched a log that has entries, none of them of that revision
outside_window ==
    /\ hist.before # None
    /\ hist.log # <<>>
    /\ \A i \in DOMAIN hist.log : hist.log[i] # hist.before.val

\* revision r has a path that becomes a file of a Change
has_kept_path(r) ==
    \E i \in DOMAIN stripped_paths(r) : kept(stripped_paths(r)[i])

\* C18: when last_change is a revision that no entry of the fetched log has,
\* every fetched entry is taken for new, oldest first, last_change becomes
\* the revision of the newest entry, and a cycle that builds its Changes
\* builds them for every fetched revision that has a file.
C18_OutsideWindow ==
    outside_window =>
        /\ Len(hist.log) <= histmax
        /\ hist.new = reverse(hist.log)
        /\ hist.after = Num(hist.log[1])
        /\ last_change = Num(hist.log[1])
        /\ was_built =>
              /\ oldest_first(hist.built)
              /\ \A k \in DOMAIN hist.new :
                   has_kept_path(hist.new[k]) =>
                       \E c \in DOMAIN hist.built :
                           hist.built[c].revision = hist.new[k]

\* C18 witness: a cycle found last_change below its full log of histmax
\* entries and delivered the Changes of all of them.
C18_Witness ==
    /\ outside_window
    /\ Len(hist.log) = histmax
    /\ hist.outcome = "ok"
    /\ \A k \in DOMAIN hist.log : hist.log[k] \in sent_revisions

\* C19: the assertion of _finished never fails: _finished runs only while
\* working is True and once for each started cycle, so working is True
\* exactly while the one cycle that set it has not finished.
C19_AssertionHolds ==
    /\ ~assert_failed
    /\ Cardinality(cycles) <= 1
    /\ working <=> cycles # {}
    /\ hist.id = ncycles - Cardinality(cycles)
    /\ \A c \in cycles : c.id = ncycles

\* C19 witness: after a failed cycle and a skipped tick whose svn info is
\* still running, the next cycle is in flight.
C19_Witness ==
    /\ hist.id >= 1
    /\ Failed(hist.outcome)
    /\ orphans > 0
    /\ working

\* C20: whenever last_change is a revision, no revision passed to addChange
\* is above it; a cycle stores last_change before it builds and submits its
\* Changes, so a cycle that fails there has stored the newest revision too.
C20_WatermarkBoundsDelivered ==
    /\ last_change # None =>
           \A i \in DOMAIN sink : sink[i].change.revision <= last_change.val
    /\ \A i \in DOMAIN hist.sent :
           hist.after # None /\ hist.sent[i].revision <= hist.after.val
    /\ hist.outcome \in {"build_failed", "submit_failed"} =>
           /\ hist.after = Num(hist.log[1])
           /\ last_change = hist.after

\* C20 witness: a cycle with two new revisions failed in addChange after it
\* had passed on a Change of the newest one, which is last_change.
C20_Witness ==
    /\ hist.outcome = "submit_failed"
    /\ Len(hist.new) >= 2
    /\ last_change # None
    /\ \E i \in DOMAIN sink : sink[i].change.revision = last_change.val

====
